---------------------------- MODULE Spec2Model ----------------------------
(***************************************************************************)
(* A model of import-github-issues (src/main.go): the four phases of main  *)
(* (collect, provision labels and milestones, replicate issues, rewrite    *)
(* references) run against a target repository reached through the GitHub  *)
(* REST client.  Texts are TLA+ strings; a nil pointer or an absent value  *)
(* is the empty sequence and a present one a sequence of length one.       *)
(***************************************************************************)
EXTENDS Integers, Sequences, FiniteSets, TLC

VARIABLES
    pc,                     \* position of main: see the actions
    sourceIssues,           \* main.go:77   the parsed snapshot, []Issue
    labels,                 \* main.go:84   collected map[string]Label
    milestones,             \* main.go:84   collected map[string]Milestone
    existingLabelNames,     \* main.go:127  names the list call returned
    labelsLeft,             \* main.go:132  keys the range loop has not visited
    milestoneTitleToNumber, \* main.go:150  map[string]int
    milestonesLeft,         \* main.go:159  keys the range loop has not visited
    oldToNewIssueNumbers,   \* main.go:192  map[int]int
    idx,                    \* main.go:193, 252  position of the range over issues
    updatedBody,            \* main.go:259  updatedBody of each rewritten issue
    tgtLabels,              \* the target repository's labels, in the server's order
    tgtMilestones,          \* the target repository's milestones, in the server's order
    tgtIssueCount,          \* the highest issue number the target has handed out
    requests,               \* the remote calls of this run, in order
    history                 \* the request logs of earlier runs against the target

vars == <<pc, sourceIssues, labels, milestones, existingLabelNames, labelsLeft,
          milestoneTitleToNumber, milestonesLeft, oldToNewIssueNumbers, idx,
          updatedBody, tgtLabels, tgtMilestones, tgtIssueCount, requests, history>>

(***************************************************************************)
(* Bounds of the model and constants of the program.                       *)
(***************************************************************************)
MaxIssues == 2      \* longest snapshot
MaxFill == 30       \* most unrelated labels (milestones) the target holds
MaxRuns == 2        \* runs of the tool against one target
MaxBodyLen == 3     \* longest enumerated issue body
PerPage == 30       \* page size of a list call made without ListOptions
MaxInt == 2147483647  \* largest int (strconv.IntSize = 32)

(***************************************************************************)
(* Maps and small helpers.                                                 *)
(***************************************************************************)
EmptyMap == [k \in {} |-> 0]

MapPut(m, k, v) == [n \in DOMAIN m \cup {k} |-> IF n = k THEN v ELSE m[n]]

Min(a, b) == IF a < b THEN a ELSE b

Range(s) == {s[k] : k \in 1..Len(s)}

Char(s, k) == SubSeq(s, k, k)

RECURSIVE SeqsUpTo(_, _)
SeqsUpTo(S, n) ==
    IF n = 0 THEN {<<>>}
    ELSE LET shorter == SeqsUpTo(S, n - 1)
         IN shorter \cup {Append(s, e) : s \in {t \in shorter : Len(t) = n - 1}, e \in S}

(***************************************************************************)
(* strconv.Atoi, fmt.Sprintf("%d") and the regexp #(\d+).                  *)
(***************************************************************************)
DigitChars == <<"0", "1", "2", "3", "4", "5", "6", "7", "8", "9">>

Digits == Range(DigitChars)

IsDigit(c) == c \in Digits

DigitVal(c) == (CHOOSE k \in 1..10 : DigitChars[k] = c) - 1

RECURSIVE Itoa(_)
Itoa(n) ==
    IF n < 10 THEN DigitChars[n + 1]
    ELSE Itoa(n \div 10) \o DigitChars[(n % 10) + 1]

\* strconv.Atoi on a string of decimal digits: the value, or on a value out of
\* range the largest int together with an error (which main.go:261 drops).
RECURSIVE AtoiFrom(_, _, _)
AtoiFrom(s, k, acc) ==
    IF k > Len(s) THEN acc
    ELSE LET d == DigitVal(Char(s, k))
         IN IF acc > (MaxInt - d) \div 10 THEN MaxInt
            ELSE AtoiFrom(s, k + 1, acc * 10 + d)

Atoi(s) == AtoiFrom(s, 1, 0)

TrimPrefix(s, p) ==
    IF Len(s) >= Len(p) /\ SubSeq(s, 1, Len(p)) = p
    THEN SubSeq(s, Len(p) + 1, Len(s))
    ELSE s

\* The last position of the greedy run \d+ whose first digit is at k.
RECURSIVE DigitsEnd(_, _)
DigitsEnd(s, k) ==
    IF k < Len(s) /\ IsDigit(Char(s, k + 1)) THEN DigitsEnd(s, k + 1) ELSE k

\* The replacement applied entry after entry: the number written for a
\* reference is looked up again.
LinkReplacementCascading(match, oldToNew) ==
    LET oldNum == Atoi(TrimPrefix(match, "#"))
    IN IF oldNum \in DOMAIN oldToNew
       THEN IF oldToNew[oldNum] \in DOMAIN oldToNew
            THEN "#" \o Itoa(oldToNew[oldToNew[oldNum]])
            ELSE "#" \o Itoa(oldToNew[oldNum])
       ELSE match

\* main.go:259-267, the function handed to ReplaceAllStringFunc.
LinkReplacement(match, oldToNew) ==
    LET oldNumStr == TrimPrefix(match, "#")
        oldNum == Atoi(oldNumStr)
    IN IF oldNum \in DOMAIN oldToNew
       THEN "#" \o Itoa(oldToNew[oldNum])
       ELSE match

\* regexp.ReplaceAllStringFunc for #(\d+) on the suffix of s that starts at k:
\* leftmost matches, each as long as possible, none overlapping.
RECURSIVE ReplaceAllFrom(_, _, _)
ReplaceAllFrom(s, k, oldToNew) ==
    IF k > Len(s) THEN ""
    ELSE IF Char(s, k) = "#" /\ k < Len(s) /\ IsDigit(Char(s, k + 1))
         THEN LET e == DigitsEnd(s, k + 1)
              IN LinkReplacement(SubSeq(s, k, e), oldToNew)
                     \o ReplaceAllFrom(s, e + 1, oldToNew)
         ELSE Char(s, k) \o ReplaceAllFrom(s, k + 1, oldToNew)

UpdatedBody(body, oldToNew) == ReplaceAllFrom(body, 1, oldToNew)

(***************************************************************************)
(* Phase 1: findLablesAndMilestones.                                       *)
(***************************************************************************)
\* The first label of a name is kept.
RECURSIVE PutLabelsOnce(_, _)
PutLabelsOnce(uniqueLabels, ls) ==
    IF ls = <<>> THEN uniqueLabels
    ELSE PutLabelsOnce(IF Head(ls).Name \in DOMAIN uniqueLabels THEN uniqueLabels
                       ELSE MapPut(uniqueLabels, Head(ls).Name, Head(ls)),
                       Tail(ls))

\* main.go:110-112
RECURSIVE PutLabels(_, _)
PutLabels(uniqueLabels, ls) ==
    IF ls = <<>> THEN uniqueLabels
    ELSE PutLabels(MapPut(uniqueLabels, Head(ls).Name, Head(ls)), Tail(ls))

PutMilestone(uniqueMilestones, m) ==
    IF m # <<>> THEN MapPut(uniqueMilestones, m[1].Title, m[1])
    ELSE uniqueMilestones

RECURSIVE CollectFrom(_, _, _)
CollectFrom(issues, uniqueLabels, uniqueMilestones) ==
    IF issues = <<>> THEN <<uniqueLabels, uniqueMilestones>>
    ELSE CollectFrom(Tail(issues),
                     PutLabels(uniqueLabels, Head(issues).Labels),
                     PutMilestone(uniqueMilestones, Head(issues).Milestone))

FindLablesAndMilestones(issues) == CollectFrom(issues, EmptyMap, EmptyMap)

(***************************************************************************)
(* time.Parse(time.RFC3339, s) for texts without fractional seconds:       *)
(* "2006-01-02T15:04:05" followed by "Z" or by a zone "+07:00".            *)
(***************************************************************************)
Num2(s, k) == DigitVal(Char(s, k)) * 10 + DigitVal(Char(s, k + 1))

DaysIn(year, month) ==
    IF month \in {4, 6, 9, 11} THEN 30
    ELSE IF month # 2 THEN 31
    ELSE IF year % 4 = 0 /\ (year % 100 # 0 \/ year % 400 = 0) THEN 29
    ELSE 28

ParsesRFC3339(s) ==
    /\ Len(s) \in {20, 25}
    /\ \A k \in {1, 2, 3, 4, 6, 7, 9, 10, 12, 13, 15, 16, 18, 19} : IsDigit(Char(s, k))
    /\ Char(s, 5) = "-" /\ Char(s, 8) = "-" /\ Char(s, 11) = "T"
    /\ Char(s, 14) = ":" /\ Char(s, 17) = ":"
    /\ Num2(s, 6) \in 1..12
    /\ Num2(s, 9) \in 1..DaysIn(Num2(s, 1) * 100 + Num2(s, 3), Num2(s, 6))
    /\ Num2(s, 12) < 24 /\ Num2(s, 15) < 60 /\ Num2(s, 18) < 60
    /\ IF Len(s) = 20 THEN Char(s, 20) = "Z"
       ELSE /\ Char(s, 20) \in {"+", "-"}
            /\ \A k \in {21, 22, 24, 25} : IsDigit(Char(s, k))
            /\ Char(s, 23) = ":"
            /\ Num2(s, 21) < 24 /\ Num2(s, 24) < 60

ZoneMinutes(s) ==
    IF Len(s) = 20 THEN 0
    ELSE (IF Char(s, 20) = "-" THEN -1 ELSE 1) * (Num2(s, 21) * 60 + Num2(s, 24))

ParsedTime(s) ==
    [year |-> Num2(s, 1) * 100 + Num2(s, 3), month |-> Num2(s, 6), day |-> Num2(s, 9),
     hour |-> Num2(s, 12), minute |-> Num2(s, 15), second |-> Num2(s, 18),
     zone |-> ZoneMinutes(s)]

(***************************************************************************)
(* Phase 2: the requests createLabels and createMilestones build.          *)
(***************************************************************************)
\* main.go:133
LabelMissing(name, existing) == name \notin existing

\* main.go:135-139
NewLabelReq(label) ==
    [Name |-> label.Name, Color |-> label.Color, Description |-> label.Description]

\* main.go:160
MilestoneKnown(title, titleToNumber) == title \in DOMAIN titleToNumber

\* The error of time.Parse is dropped and its zero time is sent.
DueOnOfUnchecked(milestone) ==
    IF milestone.DueOn = <<>> THEN <<>>
    ELSE IF ParsesRFC3339(milestone.DueOn[1]) THEN <<ParsedTime(milestone.DueOn[1])>>
    ELSE <<[year |-> 1, month |-> 1, day |-> 1, hour |-> 0, minute |-> 0,
            second |-> 0, zone |-> 0]>>

\* main.go:171-178: a due date that does not parse is dropped
DueOnOf(milestone) ==
    IF milestone.DueOn # <<>> /\ ParsesRFC3339(milestone.DueOn[1])
    THEN <<ParsedTime(milestone.DueOn[1])>>
    ELSE <<>>

\* main.go:166-178
NewMilestoneReq(milestone) ==
    [Title |-> milestone.Title, Description |-> milestone.Description,
     DueOn |-> DueOnOf(milestone)]

(***************************************************************************)
(* Phase 3: the requests createIssueAndComment builds.                     *)
(***************************************************************************)
\* main.go:194-197
LabelNames(ls) == [k \in 1..Len(ls) |-> ls[k].Name]

\* main.go:205-209
MilestoneOf(issue, milestoneTitleToNum) ==
    IF issue.Milestone # <<>> /\ issue.Milestone[1].Title \in DOMAIN milestoneTitleToNum
    THEN <<milestoneTitleToNum[issue.Milestone[1].Title]>>
    ELSE <<>>

\* The issue requested with the references of its body already rewritten by
\* the mapping built so far.
NewIssueRequestRewritten(issue, milestoneTitleToNum) ==
    [Title |-> issue.Title, Body |-> UpdatedBody(issue.Body, oldToNewIssueNumbers),
     Labels |-> LabelNames(issue.Labels),
     Milestone |-> MilestoneOf(issue, milestoneTitleToNum)]

\* main.go:199-209
NewIssueRequest(issue, milestoneTitleToNum) ==
    [Title |-> issue.Title, Body |-> issue.Body, Labels |-> LabelNames(issue.Labels),
     Milestone |-> MilestoneOf(issue, milestoneTitleToNum)]

CommentsHeading == "### Comments from original issue:\n\n---\n\n"

\* main.go:227
CommentHeader(login) == "**Comment from @" \o login \o ":**\n\n"

\* main.go:226-231
RECURSIVE WriteComments(_, _)
WriteComments(builder, comments) ==
    IF comments = <<>> THEN builder
    ELSE WriteComments(builder \o CommentHeader(Head(comments).Author.Login)
                               \o Head(comments).Body \o "\n\n---\n\n",
                       Tail(comments))

\* main.go:223-234
CombinedComments(comments) == WriteComments(CommentsHeading, comments)

\* main.go:221
HasComments(issue) == Len(issue.Comments) > 0

(***************************************************************************)
(* The target repository behind the REST client.  A list call made without *)
(* ListOptions (main.go:123, main.go:151) is answered with the first page  *)
(* of PerPage entries, in the server's order.  A create call may fail for  *)
(* any reason; it always fails for a label name or a milestone title the   *)
(* repository already holds.  Numbers handed out are fresh and increasing. *)
(***************************************************************************)
Req(op, arg, ok, res, src) ==
    [op |-> op, arg |-> arg, ok |-> ok, res |-> res, src |-> src]

FirstPage(list) == SubSeq(list, 1, Min(Len(list), PerPage))

\* client.Issues.ListLabels(ctx, owner, repo, nil), main.go:123
ListedLabels(target) == FirstPage(target)

\* client.Issues.ListMilestones(ctx, owner, repo, {State: "all"}), main.go:151
ListedMilestones(target) == FirstPage(target)

LabelOutcomes(target, name) ==
    IF \E k \in 1..Len(target) : target[k].Name = name THEN {FALSE} ELSE BOOLEAN

MilestoneOutcomes(target, title) ==
    IF \E k \in 1..Len(target) : target[k].Title = title THEN {FALSE} ELSE BOOLEAN

RECURSIVE MaxNumber(_)
MaxNumber(target) ==
    IF target = <<>> THEN 0
    ELSE LET rest == MaxNumber(Tail(target))
         IN IF Head(target).Number > rest THEN Head(target).Number ELSE rest

StoredMilestone(req, number) ==
    [Title |-> req.Title, Number |-> number, State |-> "open",
     Description |-> req.Description, DueOn |-> req.DueOn]

(***************************************************************************)
(* main, one action per step.                                              *)
(***************************************************************************)
\* Where main goes once the milestones are provisioned: both loops over the
\* issues return at once on an empty snapshot.
EnterIssues == IF Len(sourceIssues) = 0 THEN "updateLinks" ELSE "createIssues"

\* The error of a list call is logged and the run goes on.
AfterListGoingOn(ok, next) == next

\* main.go:87-89 and 91-94: an error of a list call is fatal (log.Fatalf).
AfterList(ok, next) == IF ok THEN next ELSE "aborted"

\* main.go:83-84
Collect ==
    /\ pc = "start"
    /\ labels' = FindLablesAndMilestones(sourceIssues)[1]
    /\ milestones' = FindLablesAndMilestones(sourceIssues)[2]
    /\ pc' = "createLabels"
    /\ UNCHANGED <<sourceIssues, existingLabelNames, labelsLeft, milestoneTitleToNumber,
                   milestonesLeft, oldToNewIssueNumbers, idx, updatedBody, tgtLabels,
                   tgtMilestones, tgtIssueCount, requests, history>>

\* main.go:123-130
ListLabels ==
    /\ pc = "createLabels"
    /\ \E ok \in BOOLEAN :
        /\ requests' = Append(requests, Req("ListLabels", <<>>, ok, 0, 0))
        /\ existingLabelNames' =
               IF ok THEN {l.Name : l \in Range(ListedLabels(tgtLabels))} ELSE {}
        /\ labelsLeft' = IF ok THEN DOMAIN labels ELSE {}
        /\ pc' = AfterList(ok, IF DOMAIN labels = {} THEN "createMilestones"
                               ELSE "labelLoop")
    /\ UNCHANGED <<sourceIssues, labels, milestones, milestoneTitleToNumber,
                   milestonesLeft, oldToNewIssueNumbers, idx, updatedBody, tgtLabels,
                   tgtMilestones, tgtIssueCount, history>>

\* main.go:132-144, one iteration of the range over the collected labels
CreateLabel ==
    /\ pc = "labelLoop"
    /\ \E name \in labelsLeft :
        /\ labelsLeft' = labelsLeft \ {name}
        /\ pc' = IF labelsLeft \ {name} = {} THEN "createMilestones" ELSE "labelLoop"
        /\ IF LabelMissing(name, existingLabelNames)
           THEN \E ok \in LabelOutcomes(tgtLabels, name) :
                   /\ requests' = Append(requests,
                          Req("CreateLabel", NewLabelReq(labels[name]), ok, 0, 0))
                   /\ tgtLabels' = IF ok THEN Append(tgtLabels, NewLabelReq(labels[name]))
                                   ELSE tgtLabels
           ELSE UNCHANGED <<requests, tgtLabels>>
    /\ UNCHANGED <<sourceIssues, labels, milestones, existingLabelNames,
                   milestoneTitleToNumber, milestonesLeft, oldToNewIssueNumbers, idx,
                   updatedBody, tgtMilestones, tgtIssueCount, history>>

\* The map of main.go:155-157.
RECURSIVE SeedTitles(_, _)
SeedTitles(titleToNumber, listed) ==
    IF listed = <<>> THEN titleToNumber
    ELSE SeedTitles(MapPut(titleToNumber, Head(listed).Title, Head(listed).Number),
                    Tail(listed))

\* main.go:150-157
ListMilestones ==
    /\ pc = "createMilestones"
    /\ \E ok \in BOOLEAN :
        /\ requests' = Append(requests,
               Req("ListMilestones", [State |-> "all"], ok, 0, 0))
        /\ milestoneTitleToNumber' =
               IF ok THEN SeedTitles(EmptyMap, ListedMilestones(tgtMilestones))
               ELSE EmptyMap
        /\ milestonesLeft' = IF ok THEN DOMAIN milestones ELSE {}
        /\ pc' = AfterList(ok, IF DOMAIN milestones = {} THEN EnterIssues
                               ELSE "milestoneLoop")
    /\ UNCHANGED <<sourceIssues, labels, milestones, existingLabelNames, labelsLeft,
                   oldToNewIssueNumbers, idx, updatedBody, tgtLabels, tgtMilestones,
                   tgtIssueCount, history>>

\* main.go:159-186, one iteration of the range over the collected milestones
CreateMilestone ==
    /\ pc = "milestoneLoop"
    /\ \E title \in milestonesLeft :
        /\ milestonesLeft' = milestonesLeft \ {title}
        /\ pc' = IF milestonesLeft \ {title} = {} THEN EnterIssues ELSE "milestoneLoop"
        /\ IF MilestoneKnown(title, milestoneTitleToNumber)
           THEN UNCHANGED <<requests, tgtMilestones, milestoneTitleToNumber>>
           ELSE \E ok \in MilestoneOutcomes(tgtMilestones, title) :
                   LET req == NewMilestoneReq(milestones[title])
                       number == MaxNumber(tgtMilestones) + 1
                   IN /\ requests' = Append(requests,
                             Req("CreateMilestone", req, ok, IF ok THEN number ELSE 0, 0))
                      /\ tgtMilestones' =
                             IF ok THEN Append(tgtMilestones, StoredMilestone(req, number))
                             ELSE tgtMilestones
                      /\ milestoneTitleToNumber' =
                             IF ok THEN MapPut(milestoneTitleToNumber, req.Title, number)
                             ELSE milestoneTitleToNumber
    /\ UNCHANGED <<sourceIssues, labels, milestones, existingLabelNames, labelsLeft,
                   oldToNewIssueNumbers, idx, updatedBody, tgtLabels, tgtIssueCount,
                   history>>

\* One comment posted for each comment of the source.
CommentRequestsOneEach(issue, number, src, ok) ==
    [k \in 1..Len(issue.Comments) |->
        Req("CreateComment",
            [Number |-> number,
             Body |-> CombinedComments(<<issue.Comments[k]>>)], ok, 0, src)]

\* The comment request of main.go:233-236, made only for an issue with comments.
CommentRequests(issue, number, src, ok) ==
    IF HasComments(issue)
    THEN <<Req("CreateComment",
               [Number |-> number, Body |-> CombinedComments(issue.Comments)],
               ok, 0, src)>>
    ELSE <<>>

\* A create call that failed returns no issue, and GetNumber of none is 0.
MappingAfterRecordingFailures(oldToNew, issue, created, number) ==
    MapPut(oldToNew, issue.Number, IF created THEN number ELSE 0)

\* main.go:213-219: a failed creation records nothing
MappingAfter(oldToNew, issue, created, number) ==
    IF created THEN MapPut(oldToNew, issue.Number, number) ELSE oldToNew

\* The loop over the issues is left at the first creation that fails.
AfterIssueStopping(created, last) ==
    IF last \/ ~created THEN "updateLinks" ELSE "createIssues"

\* main.go:193, 213-216: the range goes on with the next issue whether or not
\* the creation succeeded (continue), and ends after the last issue.
AfterIssue(created, last) == IF last THEN "updateLinks" ELSE "createIssues"

\* main.go:193-244, one iteration of the range over the issues
CreateIssueAndComment ==
    /\ pc = "createIssues"
    /\ LET issue == sourceIssues[idx]
           req == NewIssueRequest(issue, milestoneTitleToNumber)
           number == tgtIssueCount + 1
       IN \E created \in BOOLEAN, commented \in BOOLEAN :
           /\ ~(created /\ HasComments(issue)) => commented
           /\ oldToNewIssueNumbers' =
                  MappingAfter(oldToNewIssueNumbers, issue, created, number)
           /\ IF created
              THEN /\ tgtIssueCount' = number
                   /\ requests' = Append(requests, Req("CreateIssue", req, TRUE, number, idx))
                                      \o CommentRequests(issue, number, idx, commented)
              ELSE /\ requests' = Append(requests, Req("CreateIssue", req, FALSE, 0, idx))
                   /\ UNCHANGED tgtIssueCount
           /\ pc' = AfterIssue(created, idx = Len(sourceIssues))
    /\ idx' = IF idx = Len(sourceIssues) THEN 1 ELSE idx + 1
    /\ UNCHANGED <<sourceIssues, labels, milestones, existingLabelNames, labelsLeft,
                   milestoneTitleToNumber, milestonesLeft, updatedBody, tgtLabels,
                   tgtMilestones, history>>

\* main.go:253-257
HasMapping(sourceIssue, oldToNew) == sourceIssue.Number \in DOMAIN oldToNew

\* main.go:269
BodyChanged(newBody, body) == newBody # body

\* main.go:252-279, one iteration of the range over the issues
UpdateIssueLinks ==
    /\ pc = "updateLinks"
    /\ idx <= Len(sourceIssues)
    /\ LET sourceIssue == sourceIssues[idx]
           newBody == UpdatedBody(sourceIssue.Body, oldToNewIssueNumbers)
       IN IF HasMapping(sourceIssue, oldToNewIssueNumbers)
          THEN /\ updatedBody' = MapPut(updatedBody, idx, newBody)
               /\ IF BodyChanged(newBody, sourceIssue.Body)
                  THEN \E ok \in BOOLEAN :
                          requests' = Append(requests,
                              Req("EditIssue",
                                  [Number |-> oldToNewIssueNumbers[sourceIssue.Number],
                                   Body |-> newBody],
                                  ok, 0, idx))
                  ELSE UNCHANGED requests
          ELSE UNCHANGED <<updatedBody, requests>>
    /\ idx' = idx + 1
    /\ UNCHANGED <<pc, sourceIssues, labels, milestones, existingLabelNames, labelsLeft,
                   milestoneTitleToNumber, milestonesLeft, oldToNewIssueNumbers,
                   tgtLabels, tgtMilestones, tgtIssueCount, history>>

\* main.go:102
Finish ==
    /\ pc = "updateLinks"
    /\ idx > Len(sourceIssues)
    /\ pc' = "done"
    /\ UNCHANGED <<sourceIssues, labels, milestones, existingLabelNames, labelsLeft,
                   milestoneTitleToNumber, milestonesLeft, oldToNewIssueNumbers, idx,
                   updatedBody, tgtLabels, tgtMilestones, tgtIssueCount, requests,
                   history>>

\* The tool is started again on the same snapshot and the same target.
Rerun ==
    /\ pc \in {"done", "aborted"}
    /\ Len(history) + 1 < MaxRuns
    /\ history' = Append(history, requests)
    /\ requests' = <<>>
    /\ pc' = "start"
    /\ labels' = EmptyMap
    /\ milestones' = EmptyMap
    /\ existingLabelNames' = {}
    /\ labelsLeft' = {}
    /\ milestoneTitleToNumber' = EmptyMap
    /\ milestonesLeft' = {}
    /\ oldToNewIssueNumbers' = EmptyMap
    /\ idx' = 1
    /\ updatedBody' = EmptyMap
    /\ UNCHANGED <<sourceIssues, tgtLabels, tgtMilestones, tgtIssueCount>>

Next ==
    \/ Collect
    \/ ListLabels
    \/ CreateLabel
    \/ ListMilestones
    \/ CreateMilestone
    \/ CreateIssueAndComment
    \/ UpdateIssueLinks
    \/ Finish

NextRerun == Next \/ Rerun

NextCollect == Collect

NextProvision == ListLabels \/ CreateLabel \/ ListMilestones \/ CreateMilestone

NextIssues == CreateIssueAndComment \/ UpdateIssueLinks \/ Finish

(***************************************************************************)
(* Snapshots and targets the specifications start from.                    *)
(***************************************************************************)
Issue(number, title, body, ls, cs, m) ==
    [Number |-> number, Title |-> title, Body |-> body, Labels |-> ls,
     Comments |-> cs, Milestone |-> m]

Comment(login, body) == [Body |-> body, Author |-> [Login |-> login]]

LabelBug == [Name |-> "bug", Color |-> "d73a4a", Description |-> "Something is broken"]
LabelBugBlue == [Name |-> "bug", Color |-> "0000ff", Description |-> "A defect"]
LabelDoc == [Name |-> "doc", Color |-> "0075ca", Description |-> "Documentation"]

MilestoneV1 ==
    [Title |-> "v1", Description |-> "first", DueOn |-> <<"2025-01-31T00:00:00Z">>]
MilestoneV1Later ==
    [Title |-> "v1", Description |-> "first, moved", DueOn |-> <<"2024-02-29T12:30:00+02:00">>]
MilestoneV2 ==
    [Title |-> "v2", Description |-> "second", DueOn |-> <<"2025-02-30T00:00:00Z">>]
MilestoneV3 == [Title |-> "v3", Description |-> "third", DueOn |-> <<>>]
MilestoneV4 == [Title |-> "v4", Description |-> "fourth", DueOn |-> <<"next week">>]

IssueCrash ==
    Issue(1, "Crash on start", "see #2", <<LabelBug>>,
          <<Comment("alice", "me too"), Comment("bob", "fixed in #2?"),
            Comment("alice", "no")>>,
          <<MilestoneV1>>)
IssueDocs ==
    Issue(2, "Docs", "after #1, not #7", <<LabelBugBlue, LabelDoc>>, <<>>, <<MilestoneV2>>)
IssueAgain == Issue(1, "Crash again", "", <<>>, <<Comment("bob", "again")>>, <<>>)

\* Unrelated labels and milestones the target already holds.
FillLabel(k) == [Name |-> "label-" \o Itoa(k), Color |-> "ededed", Description |-> ""]

FillMilestone(k) ==
    [Title |-> "sprint-" \o Itoa(k), Number |-> 100 + k, State |-> "closed",
     Description |-> "", DueOn |-> <<>>]

FillLabels(n) == [k \in 1..n |-> FillLabel(k)]

FillMilestones(n) == [k \in 1..n |-> FillMilestone(k)]

FillCounts == {0} \cup {n \in 1..MaxFill : n >= PerPage - 1}

StoredV1 ==
    [Title |-> "v1", Number |-> 7, State |-> "closed", Description |-> "old",
     DueOn |-> <<>>]

\* Every text of at most n characters of the alphabet.
RECURSIVE Texts(_, _)
Texts(alphabet, n) ==
    IF n = 0 THEN {""}
    ELSE LET shorter == Texts(alphabet, n - 1)
         IN shorter \cup {s \o c : s \in {t \in shorter : Len(t) = n - 1}, c \in alphabet}

Start(issues, tl, tm, count) ==
    /\ sourceIssues = issues
    /\ tgtLabels = tl
    /\ tgtMilestones = tm
    /\ tgtIssueCount = count
    /\ pc = "start"
    /\ labels = EmptyMap
    /\ milestones = EmptyMap
    /\ existingLabelNames = {}
    /\ labelsLeft = {}
    /\ milestoneTitleToNumber = EmptyMap
    /\ milestonesLeft = {}
    /\ oldToNewIssueNumbers = EmptyMap
    /\ idx = 1
    /\ updatedBody = EmptyMap
    /\ requests = <<>>
    /\ history = <<>>

\* The whole program on short snapshots of three issues, two of which carry
\* the same number, against targets that hold or lack what they name.
Init ==
    \E issues \in SeqsUpTo({IssueCrash, IssueDocs, IssueAgain}, MaxIssues),
       tl \in {<<>>, <<LabelBug>>}, tm \in {<<>>, <<StoredV1>>}, count \in {0, 1} :
        Start(issues, tl, tm, count)

Spec == Init /\ [][Next]_vars

\* Runs of the tool, one after the other, against targets that hold up to
\* MaxFill unrelated labels and milestones.
InitRerun ==
    \E issues \in {<<IssueCrash>>, <<IssueDocs>>}, nl \in FillCounts, nm \in FillCounts :
        Start(issues, FillLabels(nl), FillMilestones(nm), 0)

SpecRerun == InitRerun /\ [][NextRerun]_vars

\* Phase 1 alone, on snapshots whose issues repeat label names and milestone
\* titles with differing fields.
CollectIssues ==
    {Issue(1, "t", "", ls, <<>>, m) :
        ls \in SeqsUpTo({LabelBug, LabelBugBlue, LabelDoc}, 2),
        m \in {<<>>, <<MilestoneV1>>, <<MilestoneV1Later>>, <<MilestoneV2>>}}

InitCollect ==
    \E issues \in SeqsUpTo(CollectIssues, MaxIssues) : Start(issues, <<>>, <<>>, 0)

SpecCollect == InitCollect /\ [][NextCollect]_vars

\* Phase 2 alone, entered as phase 1 leaves it, against targets that hold the
\* collected names before or after up to MaxFill unrelated entries.
ProvisionIssues ==
    {Issue(1, "t", "", <<LabelBug>>, <<>>, <<MilestoneV1>>),
     Issue(2, "t", "", <<LabelBugBlue, LabelDoc>>, <<>>, <<MilestoneV2>>),
     Issue(3, "t", "", <<>>, <<>>, <<MilestoneV4>>),
     Issue(4, "t", "", <<LabelDoc>>, <<>>, <<MilestoneV3>>)}

TargetLabelLists ==
    UNION {{FillLabels(n), <<LabelBug>> \o FillLabels(n), FillLabels(n) \o <<LabelBug>>} :
              n \in FillCounts}

TargetMilestoneLists ==
    UNION {{FillMilestones(n), <<StoredV1>> \o FillMilestones(n),
            FillMilestones(n) \o <<StoredV1>>} : n \in FillCounts}

InitProvision ==
    \E issues \in SeqsUpTo(ProvisionIssues, MaxIssues),
       tl \in TargetLabelLists, tm \in TargetMilestoneLists :
        /\ sourceIssues = issues
        /\ tgtLabels = tl
        /\ tgtMilestones = tm
        /\ tgtIssueCount = 0
        /\ pc = "createLabels"
        /\ labels = FindLablesAndMilestones(issues)[1]
        /\ milestones = FindLablesAndMilestones(issues)[2]
        /\ existingLabelNames = {}
        /\ labelsLeft = {}
        /\ milestoneTitleToNumber = EmptyMap
        /\ milestonesLeft = {}
        /\ oldToNewIssueNumbers = EmptyMap
        /\ idx = 1
        /\ updatedBody = EmptyMap
        /\ requests = <<>>
        /\ history = <<>>

SpecProvision == InitProvision /\ [][NextProvision]_vars

\* Phases 3 and 4 alone, entered as phase 2 leaves them for a snapshot without
\* labels and milestones and an empty target: one issue of the snapshot has
\* any body of at most MaxBodyLen characters, the others an empty one.
BodyAlphabet == {"#", "0", "1", "a"}

IssueNumbers == {1, 10}

PlainIssue(n) == Issue(n, "t", "", <<>>, <<>>, <<>>)

PlainLists == SeqsUpTo({PlainIssue(n) : n \in IssueNumbers}, MaxIssues)

\* Bodies with more than one reference.
LongBodies == {"#1#10", "see #10, #01 and 10", "#1: a#1 #2"}

BodyLists ==
    UNION {{[p EXCEPT ![k].Body = b] :
               k \in 1..Len(p), b \in Texts(BodyAlphabet, MaxBodyLen) \cup LongBodies} :
              p \in PlainLists}

\* A reference to a number no int holds, beside an issue numbered MaxInt.
OverflowBody == "#" \o Itoa(MaxInt) \o "0"

OverflowLists ==
    {<<Issue(MaxInt, "t", OverflowBody, <<>>, <<>>, <<>>)>>,
     <<Issue(1, "t", OverflowBody, <<>>, <<>>, <<>>), PlainIssue(MaxInt)>>}

InitIssues ==
    \E issues \in {<<>>} \cup BodyLists \cup OverflowLists, count \in {0, 9} :
        /\ sourceIssues = issues
        /\ tgtLabels = <<>>
        /\ tgtMilestones = <<>>
        /\ tgtIssueCount = count
        /\ pc = IF Len(issues) = 0 THEN "updateLinks" ELSE "createIssues"
        /\ labels = EmptyMap
        /\ milestones = EmptyMap
        /\ existingLabelNames = {}
        /\ labelsLeft = {}
        /\ milestoneTitleToNumber = EmptyMap
        /\ milestonesLeft = {}
        /\ oldToNewIssueNumbers = EmptyMap
        /\ idx = 1
        /\ updatedBody = EmptyMap
        /\ requests = <<Req("ListLabels", <<>>, TRUE, 0, 0),
                        Req("ListMilestones", [State |-> "all"], TRUE, 0, 0)>>
        /\ history = <<>>

SpecIssues == InitIssues /\ [][NextIssues]_vars

\* The whole program against targets that hold the milestone the snapshot
\* names before or after up to MaxFill unrelated milestones.
InitAttach ==
    \E issues \in SeqsUpTo({IssueCrash, IssueDocs, IssueAgain}, MaxIssues),
       tl \in {<<>>, <<LabelBug>>}, tm \in TargetMilestoneLists :
        Start(issues, tl, tm, 0)

SpecAttach == InitAttach /\ [][Next]_vars

(***************************************************************************)
(* What the claims speak about, read off the request log and the target.   *)
(***************************************************************************)
RequestsOf(op) == {k \in 1..Len(requests) : requests[k].op = op}

LabelRequestsFor(name) ==
    {k \in RequestsOf("CreateLabel") : requests[k].arg.Name = name}

MilestoneRequestsFor(title) ==
    {k \in RequestsOf("CreateMilestone") : requests[k].arg.Title = title}

\* Label names and milestone titles the target held when the run began: a create
\* call succeeds only for a name or title the target does not hold.
NamesBefore ==
    {tgtLabels[k].Name : k \in 1..Len(tgtLabels)}
        \ {requests[k].arg.Name : k \in {j \in RequestsOf("CreateLabel") : requests[j].ok}}

TitlesBefore ==
    {tgtMilestones[k].Title : k \in 1..Len(tgtMilestones)}
        \ {requests[k].arg.Title :
               k \in {j \in RequestsOf("CreateMilestone") : requests[j].ok}}

LabelsDone == pc \in {"createMilestones", "milestoneLoop", "createIssues", "updateLinks", "done"}

MilestonesDone == pc \in {"createIssues", "updateLinks", "done"}

\* C1: createMilestones never requests the creation of a milestone whose title
\* the target already holds, in any state: no step appends a create-milestone
\* request for a title the target holds when the step is taken.
C1_NeverRequestsExistingMilestone ==
    [][\A k \in (Len(requests) + 1)..Len(requests') :
           requests'[k].op = "CreateMilestone" =>
               \A j \in 1..Len(tgtMilestones) :
                   tgtMilestones[j].Title # requests'[k].arg.Title]_vars

\* C2: once createLabels has returned, a collected label has exactly one
\* create-label request, carrying its name, color and description, if the
\* target held no label of its name, and no request if the target held one.
C2_LabelRequestedIffMissing ==
    LabelsDone =>
        \A name \in DOMAIN labels :
            IF name \in NamesBefore
            THEN LabelRequestsFor(name) = {}
            ELSE /\ Cardinality(LabelRequestsFor(name)) = 1
                 /\ \A k \in LabelRequestsFor(name) :
                        requests[k].arg = [Name |-> name, Color |-> labels[name].Color,
                                           Description |-> labels[name].Description]

(***************************************************************************)
(* References as the claims describe them: a body read as its references   *)
(* "#<digits>" and, between them, single characters.                       *)
(***************************************************************************)
ReferenceEnd(s, k) ==
    CHOOSE e \in (k + 1)..Len(s) :
        /\ \A j \in (k + 1)..e : Char(s, j) \in Digits
        /\ e = Len(s) \/ Char(s, e + 1) \notin Digits

RECURSIVE TokensFrom(_, _)
TokensFrom(s, k) ==
    IF k > Len(s) THEN <<>>
    ELSE IF Char(s, k) = "#" /\ k < Len(s) /\ Char(s, k + 1) \in Digits
         THEN <<SubSeq(s, k, ReferenceEnd(s, k))>> \o TokensFrom(s, ReferenceEnd(s, k) + 1)
         ELSE <<Char(s, k)>> \o TokensFrom(s, k + 1)

Tokens(s) == TokensFrom(s, 1)

IsReference(t) == Len(t) >= 2

RECURSIVE StripZeros(_)
StripZeros(d) ==
    IF Len(d) > 1 /\ Char(d, 1) = "0" THEN StripZeros(SubSeq(d, 2, Len(d))) ELSE d

\* The reference t names the number n.
RefersTo(t, n) == IsReference(t) /\ StripZeros(SubSeq(t, 2, Len(t))) = ToString(n)

HasEntry(t, oldToNew) == \E n \in DOMAIN oldToNew : RefersTo(t, n)

EntryOf(t, oldToNew) == oldToNew[CHOOSE n \in DOMAIN oldToNew : RefersTo(t, n)]

RECURSIVE Concat(_)
Concat(ts) == IF ts = <<>> THEN "" ELSE Head(ts) \o Concat(Tail(ts))

\* The body in which the references with an entry are replaced, and nothing else.
ClaimedBody(body, oldToNew) ==
    Concat([k \in 1..Len(Tokens(body)) |->
               IF HasEntry(Tokens(body)[k], oldToNew)
               THEN "#" \o ToString(EntryOf(Tokens(body)[k], oldToNew))
               ELSE Tokens(body)[k]])

\* The body in which the references to n are kept, whatever becomes of the others.
BodyKeeping(body, n, oldToNew) ==
    Concat([k \in 1..Len(Tokens(body)) |->
               IF IsReference(Tokens(body)[k]) /\ ~RefersTo(Tokens(body)[k], n)
               THEN LinkReplacement(Tokens(body)[k], oldToNew)
               ELSE Tokens(body)[k]])

Mapped(j) == sourceIssues[j].Number \in DOMAIN oldToNewIssueNumbers

EditsOf(j) == {k \in RequestsOf("EditIssue") : requests[k].src = j}

IssuesDone == pc \in {"updateLinks", "done"}

\* C3: the body updateIssueLinks computes for an issue with a mapping entry is
\* the original body with every reference whose number has an entry replaced
\* by "#<new number>", every other reference and every other character kept.
C3_RewrittenBodyAsClaimed ==
    /\ \A j \in DOMAIN updatedBody :
           updatedBody[j] = ClaimedBody(sourceIssues[j].Body, oldToNewIssueNumbers)
    /\ pc = "done" => DOMAIN updatedBody = {j \in 1..Len(sourceIssues) : Mapped(j)}

\* C4: once the Replicator is through, the number of an issue whose
\* creation failed has no entry in the mapping, and the bodies computed and
\* submitted for the other issues keep their references to it.
C4_FailedNumberHasNoEntry ==
    IssuesDone =>
        \A k \in RequestsOf("CreateIssue") :
            ~requests[k].ok =>
                LET n == sourceIssues[requests[k].src].Number
                IN /\ n \notin DOMAIN oldToNewIssueNumbers
                   /\ \A j \in DOMAIN updatedBody :
                          updatedBody[j] =
                              BodyKeeping(sourceIssues[j].Body, n, oldToNewIssueNumbers)

FailedNumbers ==
    {sourceIssues[requests[k].src].Number :
        k \in {j \in RequestsOf("CreateIssue") : ~requests[j].ok}}

CreatedNumbers ==
    {sourceIssues[requests[k].src].Number :
        k \in {j \in RequestsOf("CreateIssue") : requests[j].ok}}

\* C4 for the numbers under which no issue was created: once the Replicator is
\* through, a number whose issue failed to be created, and that no other issue
\* of the snapshot carrying the same number got created under, has no entry in
\* the mapping, and every body computed and every body submitted in the
\* Rewriter phase keeps its references to it.
C4_UncreatedNumberHasNoEntry ==
    IssuesDone =>
        \A n \in FailedNumbers \ CreatedNumbers :
            /\ n \notin DOMAIN oldToNewIssueNumbers
            /\ \A j \in DOMAIN updatedBody :
                   updatedBody[j] = BodyKeeping(sourceIssues[j].Body, n, oldToNewIssueNumbers)
            /\ \A k \in RequestsOf("EditIssue") :
                   requests[k].arg.Body =
                       BodyKeeping(sourceIssues[requests[k].src].Body, n,
                                   oldToNewIssueNumbers)

\* C4's case: the creation of an issue failed, and a body that refers to its
\* number was rewritten elsewhere and submitted.
C4_Witness ==
    /\ pc = "done"
    /\ \E n \in FailedNumbers \ CreatedNumbers, k \in RequestsOf("EditIssue") :
           /\ sourceIssues[requests[k].src].Number # n
           /\ \E m \in 1..Len(Tokens(sourceIssues[requests[k].src].Body)) :
                  RefersTo(Tokens(sourceIssues[requests[k].src].Body)[m], n)

\* C5: once the Rewriter is through, an issue with a mapping entry has an
\* edit-issue request exactly if its rewritten body differs from its original
\* body, and none if no reference of its body has a mapping entry.
C5_EditIffBodyChanged ==
    pc = "done" =>
        \A j \in 1..Len(sourceIssues) :
            Mapped(j) =>
                /\ EditsOf(j) # {} <=> updatedBody[j] # sourceIssues[j].Body
                /\ (\A m \in 1..Len(Tokens(sourceIssues[j].Body)) :
                        ~HasEntry(Tokens(sourceIssues[j].Body)[m], oldToNewIssueNumbers))
                       => EditsOf(j) = {}

\* The header, then for each comment, in order, the attribution of its author,
\* its body and a separator.
RECURSIVE Blocks(_)
Blocks(cs) ==
    IF cs = <<>> THEN ""
    ELSE Blocks(SubSeq(cs, 1, Len(cs) - 1))
             \o "**Comment from @" \o cs[Len(cs)].Author.Login \o ":**\n\n"
             \o cs[Len(cs)].Body \o "\n\n---\n\n"

Consolidated(cs) == "### Comments from original issue:\n\n---\n\n" \o Blocks(cs)

CommentsOn(number) ==
    {m \in RequestsOf("CreateComment") : requests[m].arg.Number = number}

CommentsFrom(j) == {m \in RequestsOf("CreateComment") : requests[m].src = j}

\* C6: an issue that was created and whose source has comments gets exactly one
\* create-comment request, on its new number, whose body is the header followed
\* by one block per comment in the original order; an issue without comments,
\* or one whose creation failed, gets none.
C6_OneConsolidatedComment ==
    \A k \in RequestsOf("CreateIssue") :
        LET issue == sourceIssues[requests[k].src]
        IN IF requests[k].ok /\ Len(issue.Comments) >= 1
           THEN /\ CommentsOn(requests[k].res) = {k + 1}
                /\ CommentsFrom(requests[k].src) = {k + 1}
                /\ requests[k + 1].arg.Body = Consolidated(issue.Comments)
           ELSE CommentsFrom(requests[k].src) = {}

\* C6's case: the comments of alice, bob and alice were posted as one comment,
\* and an issue without comments was created.
C6_Witness ==
    /\ \E m \in RequestsOf("CreateComment") :
           /\ Len(sourceIssues[requests[m].src].Comments) = 3
           /\ requests[m].arg.Body = Consolidated(IssueCrash.Comments)
    /\ \E k \in RequestsOf("CreateIssue") :
           requests[k].ok /\ sourceIssues[requests[k].src].Comments = <<>>

RECURSIVE AllLabels(_)
AllLabels(issues) ==
    IF issues = <<>> THEN <<>> ELSE Head(issues).Labels \o AllLabels(Tail(issues))

RECURSIVE AllMilestones(_)
AllMilestones(issues) ==
    IF issues = <<>> THEN <<>> ELSE Head(issues).Milestone \o AllMilestones(Tail(issues))

\* C7: the label set findLablesAndMilestones returns has exactly the label
\* names that occur in the issues, each with the fields of its last occurrence,
\* and the milestone set exactly the titles, each with the fields of its last
\* occurrence; both are empty for the empty snapshot.
C7_CollectedLastOccurrence ==
    pc # "start" =>
        LET ls == AllLabels(sourceIssues)
            ms == AllMilestones(sourceIssues)
        IN /\ DOMAIN labels = {ls[k].Name : k \in 1..Len(ls)}
           /\ \A k \in 1..Len(ls) :
                  (\A j \in (k + 1)..Len(ls) : ls[j].Name # ls[k].Name)
                      => labels[ls[k].Name] = ls[k]
           /\ DOMAIN milestones = {ms[k].Title : k \in 1..Len(ms)}
           /\ \A k \in 1..Len(ms) :
                  (\A j \in (k + 1)..Len(ms) : ms[j].Title # ms[k].Title)
                      => milestones[ms[k].Title] = ms[k]

\* C7's case: a label name and a milestone title were collected that occur
\* twice in the snapshot, with different fields.
C7_Witness ==
    /\ pc # "start"
    /\ \E j, k \in 1..Len(AllLabels(sourceIssues)) :
           /\ j < k
           /\ AllLabels(sourceIssues)[j].Name = AllLabels(sourceIssues)[k].Name
           /\ AllLabels(sourceIssues)[j] # AllLabels(sourceIssues)[k]
           /\ labels[AllLabels(sourceIssues)[k].Name] = AllLabels(sourceIssues)[k]
    /\ Len(sourceIssues) = 2
    /\ sourceIssues[1].Milestone = <<MilestoneV1>>
    /\ sourceIssues[2].Milestone = <<MilestoneV1Later>>
    /\ milestones["v1"] = MilestoneV1Later

\* A due date text that time.Parse refuses: the text is no RFC 3339 date and time.
BadDue(milestone) ==
    /\ milestone.DueOn # <<>>
    /\ milestone.DueOn[1] \notin {"2025-01-31T00:00:00Z", "2024-02-29T12:30:00+02:00"}

FailedList(r) == r.op \in {"ListLabels", "ListMilestones"} /\ ~r.ok

\* C8: once createMilestones has returned, every collected milestone the target
\* lacked has exactly one create-milestone request, with its title and
\* description, and without a due date if its due date text does not parse;
\* and the run is aborted only by a list call that failed.
C8_BadDueDateStillCreates ==
    /\ MilestonesDone =>
           \A title \in DOMAIN milestones \ TitlesBefore :
               /\ Cardinality(MilestoneRequestsFor(title)) = 1
               /\ \A k \in MilestoneRequestsFor(title) :
                      /\ requests[k].arg.Description = milestones[title].Description
                      /\ BadDue(milestones[title]) => requests[k].arg.DueOn = <<>>
                      /\ milestones[title].DueOn = <<>> => requests[k].arg.DueOn = <<>>
                      /\ (milestones[title].DueOn # <<>> /\ ~BadDue(milestones[title]))
                             => requests[k].arg.DueOn # <<>>
    /\ pc = "aborted" => FailedList(requests[Len(requests)])

\* C8's case: a milestone whose due date does not parse was requested without
\* a due date, and after it a milestone with its due date.
C8_Witness ==
    /\ MilestonesDone
    /\ \E k, m \in RequestsOf("CreateMilestone") :
           /\ k < m
           /\ BadDue(milestones[requests[k].arg.Title])
           /\ requests[k].arg.DueOn = <<>>
           /\ requests[m].arg.DueOn # <<>>

ProvisionedIn(log) ==
    /\ \E k \in 1..Len(log) : log[k].op = "ListLabels" /\ log[k].ok
    /\ \E k \in 1..Len(log) : log[k].op = "ListMilestones" /\ log[k].ok
    /\ \A k \in 1..Len(log) : log[k].op \in {"CreateLabel", "CreateMilestone"} => log[k].ok

\* C9: a second run, with the same collected sets, against the target left by
\* a first run that provisioned the target and in which every creation
\* succeeded, makes no create-label and no create-milestone request.
C9_SecondRunCreatesNothing ==
    (Len(history) = 1 /\ ProvisionedIn(history[1])) =>
        RequestsOf("CreateLabel") \cup RequestsOf("CreateMilestone") = {}

\* C10: a list call that failed is the last remote call of the run, and the
\* run is aborted.
C10_ListFailureIsFatal ==
    \A k \in 1..Len(requests) :
        FailedList(requests[k]) => k = Len(requests) /\ pc = "aborted"

\* C10's case: the milestone list call failed after a label was created, and in
\* another run the label list call failed.
C10_Witness ==
    /\ pc = "aborted"
    /\ requests[Len(requests)].op = "ListMilestones"
    /\ RequestsOf("CreateLabel") # {}
    /\ DOMAIN milestones # {}
    /\ Len(sourceIssues) > 0

(***************************************************************************)
(* The identifier mapping, read against the create-issue requests.         *)
(***************************************************************************)
\* The create-issue requests that succeeded for an issue numbered n.
CreationsOf(n) ==
    {k \in RequestsOf("CreateIssue") :
        requests[k].ok /\ sourceIssues[requests[k].src].Number = n}

\* C11: at every point of a run the mapping has an entry for a number exactly
\* if an issue of that number was processed by the Replicator and created, the
\* entry's value is the number the target returned for that creation, and no
\* step overwrites or removes an entry once it is written.
C11_MappingWrittenOnce ==
    /\ [](/\ DOMAIN oldToNewIssueNumbers =
                 {n \in {sourceIssues[j].Number : j \in 1..Len(sourceIssues)} :
                     CreationsOf(n) # {}}
          /\ \A n \in DOMAIN oldToNewIssueNumbers :
                 \A k \in CreationsOf(n) : oldToNewIssueNumbers[n] = requests[k].res)
    /\ [][\A n \in DOMAIN oldToNewIssueNumbers :
              /\ n \in DOMAIN oldToNewIssueNumbers'
              /\ oldToNewIssueNumbers'[n] = oldToNewIssueNumbers[n]]_vars

\* The snapshot's issues carry numbers that differ from one another.
DistinctNumbers ==
    \A j, k \in 1..Len(sourceIssues) :
        sourceIssues[j].Number = sourceIssues[k].Number => j = k

\* C12: an issue whose creation failed is left out of all later steps: no
\* create-comment request carries its comments and no edit-issue request
\* carries its body, whatever becomes of the other issues.
C12_FailedIssueLeftOut ==
    \A k \in RequestsOf("CreateIssue") :
        ~requests[k].ok =>
            /\ CommentsFrom(requests[k].src) = {}
            /\ EditsOf(requests[k].src) = {}

(***************************************************************************)
(* The milestone of a create-issue request, read against the target.       *)
(***************************************************************************)
HeldTitles == {tgtMilestones[k].Title : k \in 1..Len(tgtMilestones)}

\* The target's identifier of the milestone titled title.
TargetNumberOf(title) ==
    tgtMilestones[CHOOSE k \in 1..Len(tgtMilestones) : tgtMilestones[k].Title = title].Number

FailedMilestoneTitles ==
    {requests[k].arg.Title :
        k \in {j \in RequestsOf("CreateMilestone") : ~requests[j].ok}}

\* C13: a create-issue request carries a milestone identifier exactly if the
\* issue has a milestone whose title is in the title-to-identifier map, that
\* is, whose milestone the target held before the run or got in this run; the
\* identifier is the target's identifier of the milestone of that title; an
\* issue without milestone, or whose milestone failed to be created, is
\* requested without one.
C13_MilestoneAttachedIffKnown ==
    \A k \in RequestsOf("CreateIssue") :
        LET issue == sourceIssues[requests[k].src]
            carried == requests[k].arg.Milestone
        IN /\ issue.Milestone = <<>> => carried = <<>>
           /\ issue.Milestone # <<>> =>
                  LET title == issue.Milestone[1].Title
                  IN /\ carried # <<>> <=> title \in DOMAIN milestoneTitleToNumber
                     /\ carried # <<>> <=> title \in HeldTitles
                     /\ carried # <<>> => carried[1] = TargetNumberOf(title)
                     /\ title \in FailedMilestoneTitles => carried = <<>>

(***************************************************************************)
(* The order of the remote calls of a run.                                 *)
(***************************************************************************)
\* Every request of the operations in before comes before every request of
\* the operations in after.
AllBefore(before, after) ==
    \A j, k \in 1..Len(requests) :
        (requests[j].op \in before /\ requests[k].op \in after) => j < k

\* C14: in every run every create-label request precedes every
\* create-milestone request, every create-label and create-milestone request
\* precedes every create-issue request, every create-issue and create-comment
\* request precedes every edit-issue request, and every create-issue request
\* carries the body of its source issue as it is in the snapshot.
C14_PhasesInOrder ==
    /\ AllBefore({"CreateLabel"}, {"CreateMilestone"})
    /\ AllBefore({"CreateLabel", "CreateMilestone"}, {"CreateIssue"})
    /\ AllBefore({"CreateIssue", "CreateComment"}, {"EditIssue"})
    /\ \A k \in RequestsOf("CreateIssue") :
           requests[k].arg.Body = sourceIssues[requests[k].src].Body

\* C14's case: a run that made requests of all five kinds and rewrote, in the
\* Rewriter phase, a body that it had submitted as it was.
C14_Witness ==
    /\ pc = "done"
    /\ \A op \in {"CreateLabel", "CreateMilestone", "CreateIssue", "CreateComment",
                  "EditIssue"} : RequestsOf(op) # {}
    /\ \E k \in RequestsOf("CreateIssue"), e \in RequestsOf("EditIssue") :
           /\ requests[e].src = requests[k].src
           /\ requests[k].src > 1
           /\ requests[e].arg.Body # requests[k].arg.Body

(***************************************************************************)
(* Failures that do not end the run.                                       *)
(***************************************************************************)
\* The unit of work a request belongs to: a label name, a milestone title, or
\* the position of a source issue.
UnitOf(r) ==
    IF r.op = "CreateLabel" THEN r.arg.Name
    ELSE IF r.op = "CreateMilestone" THEN r.arg.Title
    ELSE r.src

CreateOps == {"CreateLabel", "CreateMilestone", "CreateIssue", "CreateComment", "EditIssue"}

\* The positions of the source issues of the create-issue requests, in the
\* order of the requests.
RECURSIVE IssueOrder(_)
IssueOrder(log) ==
    IF log = <<>> THEN <<>>
    ELSE IF Head(log).op = "CreateIssue" THEN <<Head(log).src>> \o IssueOrder(Tail(log))
         ELSE IssueOrder(Tail(log))

\* C15: a run whose two list calls succeeded ends with exactly one create-issue
\* request for each source issue, in the snapshot's order, whichever create
\* and edit requests failed; no unit of work is requested again after its
\* request failed; and an issue whose comment failed to be posted keeps its
\* mapping entry and has its body computed by the Rewriter.
C15_FailuresNeitherStopNorRepeat ==
    /\ pc = "done" =>
           /\ IssueOrder(requests) = [j \in 1..Len(sourceIssues) |-> j]
           /\ \A k \in RequestsOf("CreateIssue") :
                  requests[k].arg.Title = sourceIssues[requests[k].src].Title
    /\ pc \in {"createIssues", "updateLinks"} =>
           \E n \in 0..Len(sourceIssues) : IssueOrder(requests) = [j \in 1..n |-> j]
    /\ \A j, k \in 1..Len(requests) :
           (/\ j < k
            /\ requests[j].op \in CreateOps
            /\ ~requests[j].ok
            /\ requests[k].op = requests[j].op)
               => UnitOf(requests[k]) # UnitOf(requests[j])
    /\ \A m \in RequestsOf("CreateComment") :
           ~requests[m].ok =>
               /\ sourceIssues[requests[m].src].Number \in DOMAIN oldToNewIssueNumbers
               /\ pc = "done" => requests[m].src \in DOMAIN updatedBody

\* C15's case: a run that went through although the creation of a label or
\* milestone, the creation of the first issue and the comment of the second
\* issue failed.
C15_Witness ==
    /\ pc = "done"
    /\ Len(sourceIssues) = 2
    /\ \E k \in RequestsOf("CreateLabel") \cup RequestsOf("CreateMilestone") : ~requests[k].ok
    /\ \E k \in RequestsOf("CreateIssue") : requests[k].src = 1 /\ ~requests[k].ok
    /\ \E m \in RequestsOf("CreateComment") :
           requests[m].src = 2 /\ ~requests[m].ok /\ 2 \in DOMAIN updatedBody

(***************************************************************************)
(* Rewritten bodies, reference by reference.  A rewritten body has as many *)
(* tokens as its source, since a reference is replaced by a reference.     *)
(***************************************************************************)
\* Every reference of body to a number with an entry stands in rewritten as the
\* reference to that entry's value.
RewrittenOnce(body, rewritten, oldToNew) ==
    /\ Len(Tokens(rewritten)) = Len(Tokens(body))
    /\ \A m \in 1..Len(Tokens(body)) :
           \A a \in DOMAIN oldToNew :
               RefersTo(Tokens(body)[m], a) =>
                   Tokens(rewritten)[m] = "#" \o ToString(oldToNew[a])

\* A reference of body names a number a whose entry b is itself a number with
\* an entry other than b.
HasChainedReference(body, oldToNew) ==
    \E m \in 1..Len(Tokens(body)), a \in DOMAIN oldToNew :
        /\ RefersTo(Tokens(body)[m], a)
        /\ oldToNew[a] \in DOMAIN oldToNew
        /\ oldToNew[oldToNew[a]] # oldToNew[a]

\* C16: in every body the Rewriter computes and in every body it submits, a
\* reference to a number a with the entry b reads "#b", also when b has an
\* entry c of its own: the references are substituted at once, not one
\* mapping entry after the other.
C16_SubstitutionNotCascade ==
    /\ \A j \in DOMAIN updatedBody :
           RewrittenOnce(sourceIssues[j].Body, updatedBody[j], oldToNewIssueNumbers)
    /\ \A e \in RequestsOf("EditIssue") :
           RewrittenOnce(sourceIssues[requests[e].src].Body, requests[e].arg.Body,
                         oldToNewIssueNumbers)

\* C16's case: a body was submitted whose source refers to a number whose new
\* number is the source number of another created issue.
C16_Witness ==
    /\ pc = "done"
    /\ \E e \in RequestsOf("EditIssue") :
           HasChainedReference(sourceIssues[requests[e].src].Body, oldToNewIssueNumbers)

(***************************************************************************)
(* The new issue a request is made on.                                     *)
(***************************************************************************)
\* The number the target returned when the source issue at position j was
\* created.
NewNumberOf(j) ==
    requests[CHOOSE k \in RequestsOf("CreateIssue") :
                 requests[k].src = j /\ requests[k].ok].res

WasCreated(j) == \E k \in RequestsOf("CreateIssue") : requests[k].src = j /\ requests[k].ok

EditsOn(number) == {e \in RequestsOf("EditIssue") : requests[e].arg.Number = number}

\* C17: every create-comment and every edit-issue request is made on the new
\* issue that was created for the source issue whose comments or body it
\* carries, and a new issue gets at most one create-comment and at most one
\* edit-issue request, also when two source issues carry the same number.
C17_RequestsOnOwnIssue ==
    /\ \A m \in RequestsOf("CreateComment") \cup RequestsOf("EditIssue") :
           /\ WasCreated(requests[m].src)
           /\ requests[m].arg.Number = NewNumberOf(requests[m].src)
    /\ \A k \in RequestsOf("CreateIssue") :
           requests[k].ok =>
               /\ Cardinality(CommentsOn(requests[k].res)) <= 1
               /\ Cardinality(EditsOn(requests[k].res)) <= 1

=============================================================================
